---------------------------- MODULE Spec2Model ----------------------------
(***************************************************************************)
(* LensLogic: the session store of App.tsx (results, active tab, token),   *)
(* the tab strip of ResultTabs.tsx, and the spreadsheet sync engine        *)
(* exportToGoogleSheet of services/googleSheetsService.                    *)
(*                                                                         *)
(* Strings that the code only stores and compares are TLA+ strings.        *)
(* A tab name is a sequence of tokens (a token is a run of non-blank       *)
(* characters, or the blank " "), so that trim() can be computed.          *)
(* JavaScript arrays are 1-based sequences here: indexOf's -1 is 0.        *)
(*                                                                         *)
(* Specifications:                                                         *)
(*   Spec        the session store: uploads, tabs, editor, exports         *)
(*   SpecSession the same with the settings dialog and the login           *)
(*   SpecTabs    the tab strip over collections of finished Results        *)
(*   SpecSync    sync calls on one sheet, every answer of the remote side  *)
(*   SpecExport  one sync call that succeeds, over all data of the bounds  *)
(*   SpecCsv     the CSV download of one extracted Result                   *)
(*   SpecHandler the export handler followed through its sync call, and    *)
(*               the login                                                 *)
(*   SpecLive    uploads and exports whose calls settle oldest first       *)
(*   SpecOperations  SpecHandler from one extracted Result, with uploads   *)
(*   SpecEditor  the editor at work on a Result while its export runs      *)
(*   SpecGuards  SpecHandler with the spreadsheet id edited at any time    *)
(*   SpecFormat  one sync call under every sheet name of the bounds        *)
(*   SpecVariants  one call by the named-sheet or the first-sheet variant  *)
(***************************************************************************)
EXTENDS Integers, Sequences, FiniteSets, TLC

\* ---------------------------------------------------------------- bounds
MaxLabels == 2      \* longest field list / table header list drawn for a sync
MaxRows == 1        \* most rows drawn for the primary table
MaxRemote == 2      \* longest pre-existing header row drawn for the sheet
MaxSyncs == 2       \* sync calls run one after the other on the sheet
MaxUploads == 2     \* files handed to the uploader
MaxTabs == 3        \* Results of a collection the tab strip is given
MaxClock == 2       \* last value of the clock (it starts at 1)
MaxCalls == 2       \* extraction and export calls in flight at once
MaxLogins == 1      \* token requests awaiting their callback at once
MaxTableRows == 2   \* rows a table can be brought to by the editor
MaxTables == 1      \* tables of the data the editor works on
MaxNameLen == 3     \* characters of a sheet name given to the formatter

\* ------------------------------------------------------- program constants
HeaderReadCols == 26     \* the header read asks for A1:Z1

Null == "null"
Undefined == "undefined"

\* -------------------------------------------------------------- utilities
Range(s) == {s[i] : i \in DOMAIN s}

SeqsUpTo(S, n) == UNION {[1..k -> S] : k \in 0..n}

Min(a, b) == IF a < b THEN a ELSE b

IsPrefix(p, s) == Len(p) <= Len(s) /\ \A i \in 1..Len(p) : p[i] = s[i]

\* Array.prototype.includes (strict equality of strings)
Includes(s, x) == \E i \in 1..Len(s) : s[i] = x

\* Array.prototype.indexOf: the first position of x, 0 when absent
IndexOf(s, x) ==
  IF Includes(s, x) THEN CHOOSE i \in 1..Len(s) : s[i] = x /\ \A j \in 1..(i-1) : s[j] # x
  ELSE 0

\* --------------------------------------------------------------- the data
\* A Field value is string | number; a number is written "#n" here.
NumberValues == {"#9"}

\* String(v)
String(v) == IF v = "#9" THEN "9" ELSE v

\* values.map(v => String(v))
StringAll(vals) == [i \in 1..Len(vals) |-> String(vals[i])]

EmptyData == [fields |-> <<>>, tables |-> <<>>]

\* ================================================================ sync engine
\* exportToGoogleSheet, "1. Prepare Data for Export"
GlobalHeaders(d) == [i \in 1..Len(d.fields) |-> d.fields[i].label]

GlobalValues(d) == [i \in 1..Len(d.fields) |-> String(d.fields[i].value)]

\* while (rowVals.length < n) rowVals.push("")
PadRow(rowVals, n) ==
  [i \in 1..(IF Len(rowVals) < n THEN n ELSE Len(rowVals)) |->
     IF i <= Len(rowVals) THEN rowVals[i] ELSE ""]

\* A variant that takes the last table.
PrimaryTableLast(d) == d.tables[Len(d.tables)]

\* const primaryTable = data.tables[0]
PrimaryTable(d) == d.tables[1]

FinalHeaders(d) ==
  IF Len(d.tables) > 0 THEN GlobalHeaders(d) \o PrimaryTable(d).headers
  ELSE GlobalHeaders(d)

RowsToAppend(d) ==
  IF Len(d.tables) > 0
  THEN [r \in 1..Len(PrimaryTable(d).rows) |->
          GlobalValues(d) \o
          PadRow(StringAll(PrimaryTable(d).rows[r].values),
                 Len(PrimaryTable(d).headers))]
  ELSE <<GlobalValues(d)>>

\* "3. Compute Header Union": finalHeaders.forEach(h => ...) over the
\* remaining headers hs, carrying masterHeaders and headersChanged.
\* A variant that pushes every header without the includes test.
UnionAll(master, changed, hs) ==
  [masterHeaders |-> master \o hs, headersChanged |-> changed \/ hs # <<>>]

RECURSIVE UnionLoop(_, _, _)
UnionLoop(master, changed, hs) ==
  IF hs = <<>> THEN [masterHeaders |-> master, headersChanged |-> changed]
  ELSE IF ~Includes(master, Head(hs))
       THEN UnionLoop(Append(master, Head(hs)), TRUE, Tail(hs))
       ELSE UnionLoop(master, changed, Tail(hs))

\* A variant that tests each local header against the headers read only.
HeaderUnionAgainstRead(existingHeaders, finalHeaders) ==
  LET Fresh(h) == ~Includes(existingHeaders, h)
  IN  [masterHeaders |-> existingHeaders \o SelectSeq(finalHeaders, Fresh),
       headersChanged |-> SelectSeq(finalHeaders, Fresh) # <<>>]

HeaderUnion(existingHeaders, finalHeaders) ==
  UnionLoop(existingHeaders, FALSE, finalHeaders)

\* A variant that looks a header up from the right (lastIndexOf).
MapRowFromRight(localRow, masterHeaders, finalHeaders) ==
  [c \in 1..Len(masterHeaders) |->
     LET P == {i \in 1..Len(finalHeaders) : finalHeaders[i] = masterHeaders[c]}
     IN  IF P # {} THEN localRow[CHOOSE i \in P : \A j \in P : j <= i] ELSE ""]

\* "4. Map Values to Master Headers Order"
MapRow(localRow, masterHeaders, finalHeaders) ==
  [c \in 1..Len(masterHeaders) |->
     LET localIndex == IndexOf(finalHeaders, masterHeaders[c])
     IN  IF localIndex # 0
         THEN (IF localIndex <= Len(localRow) THEN localRow[localIndex] ELSE Undefined)
         ELSE ""]

FormattedRows(rowsToAppend, masterHeaders, finalHeaders) ==
  [r \in 1..Len(rowsToAppend) |-> MapRow(rowsToAppend[r], masterHeaders, finalHeaders)]

\* ============================================================ sync: inputs
Labels == {"Date", "Item"}
RemoteLabels == {"Date", "Vendor"}

\* Cell values are told apart by where they stand, so that a moved, dropped
\* or repeated cell shows.
FieldValueAt == <<"f1", "f2", "f3", "f4">>
CellValueAt == << <<"r1c1", "r1c2", "r1c3", "r1c4", "r1c5">>,
                  <<"r2c1", "r2c2", "r2c3", "r2c4", "r2c5">>,
                  <<"r3c1", "r3c2", "r3c3", "r3c4", "r3c5">> >>

\* Field lists: any labels (repeats allowed); the second value is a number.
FieldsOf(ls) ==
  [i \in 1..Len(ls) |-> [label |-> ls[i],
                         value |-> IF i = 2 THEN "#9" ELSE FieldValueAt[i]]]

FieldLists == {FieldsOf(ls) : ls \in SeqsUpTo(Labels, MaxLabels)}

\* Row lengths one short of, equal to and one past the header count.
RowLengths(h) == {n \in {h - 1, h, h + 1} : n >= 0}

TableRows(h) ==
  {[r \in 1..Len(lens) |-> [values |-> [c \in 1..lens[r] |-> CellValueAt[r][c]]]] :
     lens \in SeqsUpTo(RowLengths(h), MaxRows)}

PrimaryTables ==
  UNION {{[name |-> "Items", headers |-> hs, rows |-> rows] : rows \in TableRows(Len(hs))} :
           hs \in SeqsUpTo(Labels, MaxLabels)}

SecondTable == [name |-> "Other", headers |-> <<"Vendor">>,
                rows |-> <<[values |-> <<"zz">>]>>]

TableLists ==
  {<<>>} \cup {<<t>> : t \in PrimaryTables} \cup {<<t, SecondTable>> : t \in PrimaryTables}

SyncData == {[fields |-> fs, tables |-> ts] : fs \in FieldLists, ts \in TableLists}

\* The data the failure paths of the protocol are run on: fields only, or one
\* table of one full row only.
RowOf(hs) == [values |-> [c \in 1..Len(hs) |-> CellValueAt[1][c]]]

ProtocolData ==
  {[fields |-> fs, tables |-> <<>>] : fs \in FieldLists} \cup
  {[fields |-> <<>>, tables |-> <<[name |-> "Items", headers |-> hs, rows |-> <<RowOf(hs)>>]>>] :
     hs \in SeqsUpTo(Labels, MaxLabels)}

Sheets ==
  {[exists |-> FALSE, row1 |-> <<>>, rows |-> <<>>]} \cup
  {[exists |-> TRUE, row1 |-> r, rows |-> <<>>] : r \in SeqsUpTo(RemoteLabels, MaxRemote)}

\* The locals of exportToGoogleSheet before they are assigned.
NoLocals == [finalHeaders |-> <<>>, rowsToAppend |-> <<>>, existingHeaders |-> <<>>,
             masterHeaders |-> <<>>, headersChanged |-> FALSE, formattedRows |-> <<>>]

\* A call not yet made. preRow1, prev and unauthorized are history: row 1 as
\* the call found it, how the call before it ended, and whether a request of
\* the call was answered with the status 401.
SyncCall(sid, tok, d) ==
  [pc |-> "idle", n |-> 0, spreadsheetId |-> sid, accessToken |-> tok,
   data |-> d, sheetName |-> "Result 1", reqs |-> <<>>, error |-> Null,
   loc |-> NoLocals, unauthorized |-> FALSE,
   preRow1 |-> <<>>, prev |-> [pc |-> "idle", masterHeaders |-> <<>>]]

\* ------------------------------------------------------------------ state
VARIABLES
  results,            \* App: useState<ProcessedResult[]>
  activeResultId,     \* App: useState<string | null>
  googleAccessToken,  \* App: useState<string | null>
  sheetConfig,        \* App: useState<SheetConfig>
  now,                \* the clock read by Date.now()
  readers,            \* FileReaders still reading, with the closure each will call
  calls,              \* extraction and export promises not yet settled
  editingTabId,       \* ResultTabs: useState<string | null>
  editingName,        \* ResultTabs: useState('')
  loginPending,       \* token requests whose callback has not run
  nUploads,           \* files handed to handleFile so far
  download,           \* the file of the last CSV download: <<>> or <<file>>
  sheet,              \* the remote spreadsheet, as far as the target sheet goes
  sync                \* one exportToGoogleSheet call: its arguments, locals and position

sessionVars == <<results, activeResultId, googleAccessToken, sheetConfig, now,
                 readers, calls, editingTabId, editingName, loginPending, nUploads,
                 download>>

syncVars == <<sheet, sync>>

vars == <<results, activeResultId, googleAccessToken, sheetConfig, now,
          readers, calls, editingTabId, editingName, loginPending, nUploads,
          download, sheet, sync>>

\* ================================================== sync: the remote sheet
\* The spreadsheet as the calls of one sync see it: whether a sheet titled
\* sheetName is listed in the metadata, its row 1, and the rows appended
\* below it.
\* GET values/{sheet}!A1:Z1: the first HeaderReadCols cells of row 1
\* (getResult.values?.[0] || [] when the row is empty).
RemoteHeaderRead(row1) == SubSeq(row1, 1, Min(Len(row1), HeaderReadCols))

\* PUT values/{sheet}!A1 with values [vals]: the cells from column A on are
\* overwritten by vals, the cells to the right of them are left alone.
RemoteHeaderWrite(row1, vals) ==
  [i \in 1..(IF Len(vals) > Len(row1) THEN Len(vals) ELSE Len(row1)) |->
     IF i <= Len(vals) THEN vals[i] ELSE row1[i]]

\* POST values/{sheet}!A2:append: the rows are added below the existing ones.
RemoteAppend(rows, newRows) == rows \o newRows

\* What a fetch can come to: a success status, the status 401, another
\* non-success status, or a rejected promise (network failure).
Outcomes == {"ok", "unauthorized", "error", "reject"}

\* !response.ok
NotOk(o) == o \in {"unauthorized", "error"}

\* A call on the values of a sheet that does not exist has no success status.
OutcomesOn(sh) == IF sh.exists THEN Outcomes ELSE Outcomes \ {"ok"}

\* /^[a-zA-Z0-9_]+$/
WordChars ==
  {"a", "b", "c", "d", "e", "f", "g", "h", "i", "j", "k", "l", "m",
   "n", "o", "p", "q", "r", "s", "t", "u", "v", "w", "x", "y", "z",
   "A", "B", "C", "D", "E", "F", "G", "H", "I", "J", "K", "L", "M",
   "N", "O", "P", "Q", "R", "S", "T", "U", "V", "W", "X", "Y", "Z",
   "0", "1", "2", "3", "4", "5", "6", "7", "8", "9", "_"}

IsWord(name) ==
  Len(name) > 0 /\ \A k \in 1..Len(name) : SubSeq(name, k, k) \in WordChars

\* A variant that leaves the quotes of the name as they are.
KeepQuotes(name) == name

\* name.replace(/'/g, "''")
RECURSIVE DoubleQuotes(_)
DoubleQuotes(name) ==
  IF Len(name) = 0 THEN ""
  ELSE (IF SubSeq(name, 1, 1) = "'" THEN "''" ELSE SubSeq(name, 1, 1))
       \o DoubleQuotes(SubSeq(name, 2, Len(name)))

\* formatSheetName: the sheet name as it stands in an A1 range
FormatSheetName(name) ==
  IF IsWord(name) THEN name ELSE "'" \o DoubleQuotes(name) \o "'"

\* ====================================================== exportToGoogleSheet
\* A request put ahead of the requests already issued.
IssueAhead(s, req, pc) == [s EXCEPT !.pc = pc, !.reqs = <<req>> \o @]

\* The call stands at sync.pc: the request named there has been issued and
\* its response is awaited.
Issue(s, req, pc) == [s EXCEPT !.pc = pc, !.reqs = Append(@, req)]

\* The error kept, the call going on.
Noted(s, msg) == [s EXCEPT !.error = msg]

\* throw new Error(msg)
Throw(s, msg) == [s EXCEPT !.pc = "failed", !.error = msg]

\* The response o has arrived.
Heard(s, o) == [s EXCEPT !.unauthorized = @ \/ o = "unauthorized"]

\* Entry of exportToGoogleSheet with the arguments of s, on a sheet whose
\* row 1 is row1: the argument check, then the metadata fetch.
Entered(s, row1) ==
  LET s0 == [s EXCEPT !.n = @ + 1, !.reqs = <<>>, !.error = Null,
                      !.loc = NoLocals, !.unauthorized = FALSE,
                      !.preRow1 = row1,
                      !.prev = [pc |-> s.pc, masterHeaders |-> s.loc.masterHeaders]]
  IN  IF s0.spreadsheetId = "" \/ s0.accessToken = ""
      THEN Throw(s0, "Missing Spreadsheet ID or Access Token")
      ELSE Issue(s0, "meta", "meta")

SyncStart ==
  /\ sync.pc \in {"idle", "done", "failed"}
  /\ sync.n < MaxSyncs
  /\ sync' = Entered(sync, sheet.row1)
  /\ UNCHANGED <<sheet, sessionVars>>

\* "1. Prepare Data for Export" runs when the sheet has been found or created.
Prepared(s) ==
  [s EXCEPT !.loc.finalHeaders = FinalHeaders(s.data),
            !.loc.rowsToAppend = RowsToAppend(s.data)]

\* metaData.sheets, by title: the spreadsheet has two other sheets, one of
\* them titled like the sample name but for the case of a letter.
MetaTitles(sh, sheetName) ==
  {"Sheet1", "result 1"} \cup (IF sh.exists THEN {sheetName} ELSE {})

\* A variant that takes any sheet of the spreadsheet.
FindAnySheet(titles, sheetName) == titles # {}

\* metaData.sheets.find(s => s.properties.title === sheetName)
FindSheet(titles, sheetName) == \E t \in titles : t = sheetName

\* An error text that names the status 401 comes with that status.
NamesStatus(msg) == msg = "Error 401: unauthorized"

\* "0. Find or Create Sheet": the metadata response.
MetaResp(o, msg) ==
  /\ sync.pc = "meta"
  /\ NamesStatus(msg) => o = "unauthorized"
  /\ sync' = CASE o = "reject" -> Throw(sync, "Failed to fetch")
               [] NotOk(o) -> Throw(Heard(sync, o), msg)
               [] o = "ok" ->
                    IF ~FindSheet(MetaTitles(sheet, sync.sheetName), sync.sheetName)
                    THEN Issue(sync, "create", "create")
                    ELSE Issue(Prepared(sync), "read", "read")
  /\ UNCHANGED <<sheet, sessionVars>>

\* The create-sheet response; its status is not looked at.
CreateResp(o) ==
  /\ sync.pc = "create"
  /\ sheet' = IF o = "ok" THEN [sheet EXCEPT !.exists = TRUE] ELSE sheet
  /\ sync' = IF o = "reject" THEN Throw(sync, "Failed to fetch")
             ELSE Issue(Prepared(Heard(sync, o)), "read", "read")
  /\ UNCHANGED sessionVars

\* The union taken against row 1 as the call found it, whatever was read.
ReconciledWithRow1(s, existingHeaders) ==
  LET u == HeaderUnion(s.preRow1, s.loc.finalHeaders)
  IN  [s EXCEPT !.loc.existingHeaders = s.preRow1,
                !.loc.masterHeaders = u.masterHeaders,
                !.loc.headersChanged = u.headersChanged]

\* "3. Compute Header Union", then "4. Map Values" when no write is needed.
Reconciled(s, existingHeaders) ==
  LET u == HeaderUnion(existingHeaders, s.loc.finalHeaders)
  IN  [s EXCEPT !.loc.existingHeaders = existingHeaders,
                !.loc.masterHeaders = u.masterHeaders,
                !.loc.headersChanged = u.headersChanged]

Mapped(s) ==
  [s EXCEPT !.loc.formattedRows =
     FormattedRows(s.loc.rowsToAppend, s.loc.masterHeaders, s.loc.finalHeaders)]

\* "2. Fetch Existing Headers": the response of the A1:Z1 read.
ReadResp(o) ==
  /\ sync.pc = "read"
  /\ o \in OutcomesOn(sheet)
  /\ sync' = IF o = "reject" THEN Throw(sync, "Failed to fetch")
             ELSE LET existingHeaders ==
                        IF o = "ok" THEN RemoteHeaderRead(sheet.row1) ELSE <<>>
                      s1 == Reconciled(Heard(sync, o), existingHeaders)
                  IN  IF s1.loc.headersChanged
                      THEN Issue(s1, "write", "write")
                      ELSE Issue(Mapped(s1), "append", "append")
  /\ UNCHANGED <<sheet, sessionVars>>

\* "Update sheet headers if needed": the response of the PUT; its status is
\* not looked at.
WriteResp(o) ==
  /\ sync.pc = "write"
  /\ o \in OutcomesOn(sheet)
  /\ sheet' = IF o = "ok"
              THEN [sheet EXCEPT !.row1 = RemoteHeaderWrite(@, sync.loc.masterHeaders)]
              ELSE sheet
  /\ sync' = IF o = "reject" THEN Throw(sync, "Failed to fetch")
             ELSE Issue(Mapped(Heard(sync, o)), "append", "append")
  /\ UNCHANGED sessionVars

\* "5. Append Rows": the response of the append.
AppendResp(o, msg) ==
  /\ sync.pc = "append"
  /\ o \in OutcomesOn(sheet)
  /\ sheet' = IF o = "ok"
              THEN [sheet EXCEPT !.rows = RemoteAppend(@, sync.loc.formattedRows)]
              ELSE sheet
  /\ sync' = CASE o = "reject" -> Throw(sync, "Failed to fetch")
               [] NotOk(o) -> Throw(Heard(sync, o), msg)
               [] o = "ok" -> [sync EXCEPT !.pc = "done"]
  /\ UNCHANGED sessionVars

\* `${a1SheetName}!A2`
AppendRange == FormatSheetName(sync.sheetName) \o "!A2"

\* err.error?.message || "<default>": what the error body of the remote says,
\* or the default. The text is the remote's: two samples for the metadata
\* request (one of which names the status 401), and for the append a sample
\* that names no status and one that quotes the range of the request.
MetaMessages == {"Request had invalid authentication credentials.",
                 "Error 401: unauthorized",
                 "Failed to access spreadsheet. Check ID and permissions."}
AppendMessages == {"Request had invalid authentication credentials.",
                   "Unable to parse range: " \o AppendRange,
                   "Failed to append row"}

\* ------------------------------------------------- the first-sheet variant
\* The earlier exportToGoogleSheet(spreadsheetId, accessToken, data): no
\* sheet name is passed in; sync.sheetName holds the sheet title it resolves
\* and `sheet` is the sheet of that title. Its entry test and its steps 1 to 5
\* are, statement by statement, those of the named-sheet variant (header read
\* of A1:Z1 included), so Entered, ReadResp, WriteResp and AppendResp stand
\* for both.

\* A variant that takes the last sheet of the metadata.
LastSheetTitle(titles) ==
  IF titles # <<>> /\ titles[Len(titles)] # "" THEN titles[Len(titles)] ELSE "Sheet1"

\* metaData.sheets?.[0]?.properties?.title || 'Sheet1'
FirstSheetTitle(titles) ==
  IF titles # <<>> /\ titles[1] # "" THEN titles[1] ELSE "Sheet1"

\* The sheet titles of the metadata, in the spreadsheet's order; a response
\* without sheets is the <<>>.
TitleLists == {<<>>, <<"Sheet1">>, <<"Result 1", "Sheet1">>, <<"Q3 data", "Result 1">>}

\* "0. Fetch Spreadsheet Metadata to get correct Sheet Name": the metadata
\* response; then "1. Prepare Data for Export" and the header read.
FirstSheetMetaResp(o, msg, titles) ==
  /\ sync.pc = "meta"
  /\ NamesStatus(msg) => o = "unauthorized"
  /\ sheet.exists <=> titles # <<>>
  /\ sync' = CASE o = "reject" -> Throw(sync, "Failed to fetch")
               [] NotOk(o) -> Throw(Heard(sync, o), msg)
               [] o = "ok" ->
                    Issue(Prepared([sync EXCEPT !.sheetName = FirstSheetTitle(titles)]),
                          "read", "read")
  /\ UNCHANGED <<sheet, sessionVars>>

\* ============================================================ session store
\* AppStatus
IDLE == "IDLE"
ANALYZING == "ANALYZING"
SUCCESS == "SUCCESS"
ERROR == "ERROR"
EXPORTING == "EXPORTING"

\* `result-${Date.now()}`
ResultId(t) == <<"result-1", "result-2", "result-3", "result-4", "result-5">>[t]

\* `Result ${n}`, as tokens
NumberText(n) == <<"1", "2", "3", "4", "5", "6">>[n]
ResultName(n) == <<"Result", " ", NumberText(n)>>

\* The string a token sequence stands for
RECURSIVE Text(_)
Text(name) == IF name = <<>> THEN "" ELSE Head(name) \o Text(Tail(name))

\* String.prototype.trim on a token sequence
RECURSIVE TrimStart(_)
TrimStart(t) == IF t # <<>> /\ Head(t) = " " THEN TrimStart(Tail(t)) ELSE t

RECURSIVE TrimEnd(_)
TrimEnd(t) ==
  IF t # <<>> /\ t[Len(t)] = " " THEN TrimEnd(SubSeq(t, 1, Len(t) - 1)) ELSE t

\* A variant that keeps the blanks.
Untrimmed(t) == t

\* String.prototype.trim
Trim(t) == TrimEnd(TrimStart(t))

\* The files the user picks, by the order of picking.
ImageOf(k) == <<"image-1", "image-2", "image-3", "image-4", "image-5">>[k]

\* What the extraction of an image can return.
SampleFields == <<[label |-> "Date", value |-> "f1"]>>
SampleTable == [name |-> "Items", headers |-> <<"Item">>,
                rows |-> <<[values |-> <<"r1c1">>]>>]
DataB == [fields |-> SampleFields, tables |-> <<SampleTable>>]
DataC == [fields |-> <<[label |-> "Date", value |-> "f2"]>>, tables |-> <<>>]
\* What the editor hands to onChange.
EditedData == {DataC}

\* results.find(r => r.id === id)
Find(rs, id) ==
  IF \E i \in 1..Len(rs) : rs[i].id = id
  THEN rs[CHOOSE i \in 1..Len(rs) : rs[i].id = id /\ \A j \in 1..(i-1) : rs[j].id # id]
  ELSE Undefined

HasResult(rs, id) == \E i \in 1..Len(rs) : rs[i].id = id

\* const activeResult = results.find(r => r.id === activeResultId)
ActiveResult == Find(results, activeResultId)
HasActive == HasResult(results, activeResultId)

\* hasData
HasData ==
  HasActive /\ (Len(ActiveResult.data.fields) > 0 \/ Len(ActiveResult.data.tables) > 0)

\* isLoading={results.some(r => r.status === AppStatus.ANALYZING)}
IsLoading == \E i \in 1..Len(results) : results[i].status = ANALYZING

\* prev.map(r => (r.id === id ? { ...r, ...updates } : r)), one operator per
\* shape of updates
UpdateStatus(rs, id, st) ==
  [i \in 1..Len(rs) |-> IF rs[i].id = id THEN [rs[i] EXCEPT !.status = st] ELSE rs[i]]

\* A variant that stores the data and leaves the status.
StoreExtracted(rs, id, d) ==
  [i \in 1..Len(rs) |-> IF rs[i].id = id THEN [rs[i] EXCEPT !.data = d] ELSE rs[i]]

UpdateExtracted(rs, id, d) ==
  [i \in 1..Len(rs) |->
     IF rs[i].id = id THEN [rs[i] EXCEPT !.data = d, !.status = SUCCESS] ELSE rs[i]]

\* A variant that stores the message and leaves the status.
UpdateMessage(rs, id, msg) ==
  [i \in 1..Len(rs) |->
     IF rs[i].id = id THEN [rs[i] EXCEPT !.errorMessage = msg] ELSE rs[i]]

UpdateFailed(rs, id, msg) ==
  [i \in 1..Len(rs) |->
     IF rs[i].id = id THEN [rs[i] EXCEPT !.status = ERROR, !.errorMessage = msg]
     ELSE rs[i]]

UpdateData(rs, id, d) ==
  [i \in 1..Len(rs) |-> IF rs[i].id = id THEN [rs[i] EXCEPT !.data = d] ELSE rs[i]]

UpdateName(rs, id, nm) ==
  [i \in 1..Len(rs) |-> IF rs[i].id = id THEN [rs[i] EXCEPT !.name = nm] ELSE rs[i]]

\* results.filter(r => r.id !== id)
RECURSIVE Without(_, _)
Without(rs, id) ==
  IF rs = <<>> THEN <<>>
  ELSE IF Head(rs).id # id THEN <<Head(rs)>> \o Without(Tail(rs), id)
       ELSE Without(Tail(rs), id)

\* A sequence without its i-th element (a promise or a reader that settled).
RemoveAt(q, i) == SubSeq(q, 1, i - 1) \o SubSeq(q, i + 1, Len(q))

\* ImageUploader.handleFile: a file is handed to a FileReader. The reader's
\* onload will call the onImageSelected of the render that made the handler:
\* the current one for the file input (handleChange), the first one for a
\* drop (handleDrop is memoised with no dependencies), where results = [].
\* The uploader takes no file while isLoading.
HandleFile(viaDrop) ==
  /\ ~IsLoading
  /\ nUploads < MaxUploads
  /\ nUploads' = nUploads + 1
  /\ readers' = Append(readers, [image |-> ImageOf(nUploads + 1),
                                 length |-> IF viaDrop THEN 0 ELSE Len(results)])
  /\ UNCHANGED <<results, activeResultId, googleAccessToken, sheetConfig, now, calls,
                 editingTabId, editingName, loginPending, download, syncVars>>

\* reader.onload -> handleImageSelect, up to the await.
HandleImageSelect(i) ==
  /\ i \in 1..Len(readers)
  /\ Len(calls) < MaxCalls
  /\ LET newResultId == ResultId(now)
         newResult == [id |-> newResultId,
                       name |-> ResultName(readers[i].length + 1),
                       image |-> readers[i].image,
                       data |-> EmptyData,
                       status |-> ANALYZING,
                       errorMessage |-> Null]
     IN  /\ results' = Append(results, newResult)
         /\ activeResultId' = newResultId
         /\ calls' = Append(calls, [kind |-> "extract", id |-> newResultId,
                                    image |-> readers[i].image, orphan |-> FALSE])
  /\ readers' = RemoveAt(readers, i)
  /\ UNCHANGED <<googleAccessToken, sheetConfig, now, editingTabId, editingName,
                 loginPending, nUploads, download, syncVars>>

\* Time passes.
Tick ==
  /\ now < MaxClock
  /\ now' = now + 1
  /\ UNCHANGED <<results, activeResultId, googleAccessToken, sheetConfig, readers, calls,
                 editingTabId, editingName, loginPending, nUploads, download, syncVars>>

\* A value of the parsed response: an array with its items, or something
\* that is not an array (null, undefined, a string, an object).
Arr(items) == [isArray |-> TRUE, items |-> items]
NotArr == [isArray |-> FALSE, items |-> <<>>]

\* The value passed on as it is.
Uncoerced(value) == value

\* Array.isArray(value) ? value : []
CoercedArray(value) == IF value.isArray THEN value ELSE Arr(<<>>)

\* extractDataFromImage's return: fields and tables of the parsed response,
\* each replaced by [] when it is not an array.
Coerced(parsed) ==
  [fields |-> CoercedArray(parsed.fields).items,
   tables |-> CoercedArray(parsed.tables).items]

ParsedResponses ==
  {[fields |-> Arr(SampleFields), tables |-> Arr(<<SampleTable>>)],
   [fields |-> NotArr, tables |-> NotArr]}

\* error.message of what extractDataFromImage throws
ExtractionErrors == {"No data returned from Vision API", ""}

\* The Results with this id are given data made of new objects: the export
\* calls in flight for the id keep the objects they were given.
Unshared(cs, id) ==
  [k \in 1..Len(cs) |->
     IF cs[k].id = id /\ cs[k].kind = "export" THEN [cs[k] EXCEPT !.shared = FALSE]
     ELSE cs[k]]

\* handleImageSelect after the await, the try branch.
ExtractionResolved(i, parsed) ==
  /\ i \in 1..Len(calls)
  /\ calls[i].kind = "extract"
  /\ results' = UpdateExtracted(results, calls[i].id, Coerced(parsed))
  /\ calls' = Unshared(RemoveAt(calls, i), calls[i].id)
  /\ UNCHANGED <<activeResultId, googleAccessToken, sheetConfig, now, readers,
                 editingTabId, editingName, loginPending, nUploads, download, syncVars>>

\* handleImageSelect after the await, the catch branch.
ExtractionRejected(i, message) ==
  /\ i \in 1..Len(calls)
  /\ calls[i].kind = "extract"
  /\ results' = UpdateFailed(results, calls[i].id,
                             IF message # "" THEN message ELSE "Failed to extract data.")
  /\ calls' = RemoveAt(calls, i)
  /\ UNCHANGED <<activeResultId, googleAccessToken, sheetConfig, now, readers,
                 editingTabId, editingName, loginPending, nUploads, download, syncVars>>

\* ResultTabs: onClick={() => onSelectTab(result.id)}
SelectTab(i) ==
  /\ i \in 1..Len(results)
  /\ activeResultId' = results[i].id
  /\ UNCHANGED <<results, googleAccessToken, sheetConfig, now, readers, calls,
                 editingTabId, editingName, loginPending, nUploads, download, syncVars>>

\* A variant that re-activates the first remaining Result.
ActiveAfterCloseFirst(active, id, remainingResults) ==
  IF active = id
  THEN (IF Len(remainingResults) > 0 THEN remainingResults[1].id ELSE Null)
  ELSE active

\* handleCloseTab's choice of the active id
ActiveAfterClose(active, id, remainingResults) ==
  IF active = id
  THEN (IF Len(remainingResults) > 0
        THEN remainingResults[Len(remainingResults)].id
        ELSE Null)
  ELSE active

\* A call whose Result is closed goes on; orphan records that its Result
\* was closed (history, read by no operation).
Orphaned(cs, id) ==
  [k \in 1..Len(cs) |->
     IF cs[k].id # id THEN cs[k]
     ELSE IF cs[k].kind = "export" THEN [cs[k] EXCEPT !.orphan = TRUE, !.shared = FALSE]
     ELSE [cs[k] EXCEPT !.orphan = TRUE]]

\* ResultTabs: the tab's close button -> handleCloseTab(result.id)
HandleCloseTab(i) ==
  /\ i \in 1..Len(results)
  /\ LET id == results[i].id
         remainingResults == Without(results, id)
     IN  /\ activeResultId' = ActiveAfterClose(activeResultId, id, remainingResults)
         /\ results' = remainingResults
         /\ calls' = Orphaned(calls, id)
  /\ UNCHANGED <<googleAccessToken, sheetConfig, now, readers,
                 editingTabId, editingName, loginPending, nUploads, download, syncVars>>

\* ResultTabs.handleStartEditing (double click on a tab)
HandleStartEditing(i) ==
  /\ i \in 1..Len(results)
  /\ editingTabId' = results[i].id
  /\ editingName' = results[i].name
  /\ UNCHANGED <<results, activeResultId, googleAccessToken, sheetConfig, now, readers,
                 calls, loginPending, nUploads, download, syncVars>>

\* What the user types into the tab's input.
TypedNames == {<<>>, <<" ">>, <<" ", "Q3", " ">>}

\* onChange={(e) => setEditingName(e.target.value)}
TypeName(text) ==
  /\ editingTabId # Null
  /\ HasResult(results, editingTabId)
  /\ editingName' = text
  /\ UNCHANGED <<results, activeResultId, googleAccessToken, sheetConfig, now, readers,
                 calls, editingTabId, loginPending, nUploads, download, syncVars>>

\* ResultTabs.handleFinishEditing (Enter, or blur), with handleRenameTab
HandleFinishEditing ==
  /\ editingTabId # Null
  /\ results' = IF Trim(editingName) # <<>>
                THEN UpdateName(results, editingTabId, Trim(editingName))
                ELSE results
  /\ editingTabId' = Null
  /\ editingName' = <<>>
  /\ UNCHANGED <<activeResultId, googleAccessToken, sheetConfig, now, readers, calls,
                 loginPending, nUploads, download, syncVars>>

\* ResultTabs.handleKeyDown, Escape
CancelEditing ==
  /\ editingTabId # Null
  /\ editingTabId' = Null
  /\ editingName' = <<>>
  /\ UNCHANGED <<results, activeResultId, googleAccessToken, sheetConfig, now, readers,
                 calls, loginPending, nUploads, download, syncVars>>

\* DataEditor onChange={(newData) => ...}. The editor shows its inputs only
\* for data with a field or a table.
EditorChange(newData) ==
  /\ HasData
  /\ activeResultId # Null
  /\ results' = UpdateData(results, activeResultId, newData)
  /\ calls' = Unshared(calls, activeResultId)
  /\ UNCHANGED <<activeResultId, googleAccessToken, sheetConfig, now, readers,
                 editingTabId, editingName, loginPending, nUploads, download, syncVars>>

\* newTables[tableIndex].rows.push({ values: emptyRow }): the rows array of
\* the table object is extended in place.
AddedRow(d, tableIndex) ==
  [d EXCEPT !.tables[tableIndex].rows =
     Append(@, [values |-> [c \in 1..Len(d.tables[tableIndex].headers) |-> ""]])]

\* newTables[tableIndex].rows = rows.filter((_, i) => i !== rowIndex): the
\* table object is given the filtered rows.
DeletedRow(d, tableIndex, rowIndex) ==
  [d EXCEPT !.tables[tableIndex].rows = RemoveAt(@, rowIndex)]

\* A table object of the active Result's data is changed in place, then
\* onChange({ ...data, tables: newTables }). Every holder of the object sees
\* the change: the export calls made with this data, and the sync call that
\* runs one of them. edited is the value of the data after the change.
EditInPlace(edited) ==
  /\ results' = UpdateData(results, activeResultId, edited)
  /\ calls' = [k \in 1..Len(calls) |->
                IF calls[k].kind = "export" /\ calls[k].id = activeResultId
                   /\ calls[k].shared
                THEN [calls[k] EXCEPT !.data = edited]
                ELSE calls[k]]
  /\ sync' = IF \E k \in 1..Len(calls) :
                  /\ calls[k].kind = "export" /\ calls[k].id = activeResultId
                  /\ calls[k].shared /\ calls[k].syncNo = sync.n
             THEN [sync EXCEPT !.data = edited]
             ELSE sync
  /\ UNCHANGED <<activeResultId, googleAccessToken, sheetConfig, now, readers,
                 editingTabId, editingName, loginPending, nUploads, download, sheet>>

\* DataEditor.addTableRow
AddTableRow(tableIndex) ==
  /\ HasData
  /\ tableIndex \in 1..Len(ActiveResult.data.tables)
  /\ Len(ActiveResult.data.tables[tableIndex].rows) < MaxTableRows
  /\ EditInPlace(AddedRow(ActiveResult.data, tableIndex))

\* DataEditor.deleteTableRow
DeleteTableRow(tableIndex, rowIndex) ==
  /\ HasData
  /\ tableIndex \in 1..Len(ActiveResult.data.tables)
  /\ rowIndex \in 1..Len(ActiveResult.data.tables[tableIndex].rows)
  /\ EditInPlace(DeletedRow(ActiveResult.data, tableIndex, rowIndex))

\* "Try Again" on the error overlay of the active Result
TryAgain ==
  /\ HasActive
  /\ ActiveResult.status = ERROR
  /\ results' = UpdateStatus(results, ActiveResult.id, IDLE)
  /\ UNCHANGED <<activeResultId, googleAccessToken, sheetConfig, now, readers, calls,
                 editingTabId, editingName, loginPending, nUploads, download, syncVars>>

\* The settings dialog: setSheetConfig(prev => ({...prev, spreadsheetId}))
SetSpreadsheetId(v) ==
  /\ sheetConfig.spreadsheetId # v
  /\ sheetConfig' = [sheetConfig EXCEPT !.spreadsheetId = v]
  /\ UNCHANGED <<results, activeResultId, googleAccessToken, now, readers, calls,
                 editingTabId, editingName, loginPending, nUploads, download, syncVars>>

\* The settings dialog: setSheetConfig(prev => ({...prev, clientId}))
SetClientId(v) ==
  /\ sheetConfig.clientId # v
  /\ sheetConfig' = [sheetConfig EXCEPT !.clientId = v]
  /\ UNCHANGED <<results, activeResultId, googleAccessToken, now, readers, calls,
                 editingTabId, editingName, loginPending, nUploads, download, syncVars>>

\* handleGoogleLogin: requestAccessToken() when a client id is configured
RequestToken ==
  /\ sheetConfig.clientId # ""
  /\ loginPending < MaxLogins
  /\ loginPending' = loginPending + 1

\* "Connect Google", shown while there is no token
HandleGoogleLogin ==
  /\ googleAccessToken = Null
  /\ RequestToken
  /\ UNCHANGED <<results, activeResultId, googleAccessToken, sheetConfig, now, readers,
                 calls, editingTabId, editingName, nUploads, download, syncVars>>

\* A variant whose callback starts the export of the active Result again.
TokenCallbackResuming(accessToken) ==
  /\ loginPending > 0
  /\ loginPending' = loginPending - 1
  /\ googleAccessToken' = IF accessToken # Null THEN accessToken ELSE googleAccessToken
  /\ calls' = IF accessToken # Null /\ HasData /\ Len(calls) < MaxCalls
              THEN Append(calls, [kind |-> "export", id |-> ActiveResult.id,
                                  sheetName |-> ActiveResult.name,
                                  data |-> ActiveResult.data,
                                  accessToken |-> accessToken,
                                  spreadsheetId |-> sheetConfig.spreadsheetId,
                                  statusBefore |-> ActiveResult.status,
                                  syncNo |-> 0,
                                  shared |-> TRUE,
                                  exported |-> ActiveResult.data,
                                  orphan |-> FALSE])
              ELSE calls
  /\ UNCHANGED <<results, activeResultId, sheetConfig, now, readers,
                 editingTabId, editingName, nUploads, download, syncVars>>

\* The token client's callback: tokenResponse.access_token, Null when the
\* response carries none.
TokenCallback(accessToken) ==
  /\ loginPending > 0
  /\ loginPending' = loginPending - 1
  /\ googleAccessToken' = IF accessToken # Null THEN accessToken ELSE googleAccessToken
  /\ UNCHANGED <<results, activeResultId, sheetConfig, now, readers, calls,
                 editingTabId, editingName, nUploads, download, syncVars>>

\* A variant without the test of the spreadsheet id.
HandleExportUnguarded ==
  /\ googleAccessToken # Null
  /\ HasData
  /\ ActiveResult.status # EXPORTING
  /\ Len(calls) < MaxCalls
  /\ results' = UpdateStatus(results, ActiveResult.id, EXPORTING)
  /\ calls' = Append(calls, [kind |-> "export", id |-> ActiveResult.id,
                             sheetName |-> ActiveResult.name,
                             data |-> ActiveResult.data,
                             accessToken |-> googleAccessToken,
                             spreadsheetId |-> sheetConfig.spreadsheetId,
                             statusBefore |-> ActiveResult.status,
                             syncNo |-> 0,
                             shared |-> TRUE,
                             exported |-> ActiveResult.data,
                             orphan |-> FALSE])
  /\ UNCHANGED <<activeResultId, googleAccessToken, sheetConfig, now, readers,
                 editingTabId, editingName, loginPending, nUploads, download, syncVars>>

\* "Export Sheet" clicked (shown with a token, enabled with data and not
\* while the active Result is exporting): handleExportToSheets up to the await.
\* The call carries the arguments of exportToGoogleSheet; statusBefore and
\* orphan are history, read by no operation; syncNo is the number of the sync
\* call that runs it, 0 where the run of the call is not followed. The data
\* argument is the object activeResult.data itself: shared tells that its
\* tables are still the table objects of the Result's data, and exported
\* (history) is the value the data had when the call was made.
HandleExportToSheets ==
  /\ googleAccessToken # Null
  /\ HasData
  /\ ActiveResult.status # EXPORTING
  /\ IF sheetConfig.spreadsheetId = ""
     THEN UNCHANGED <<results, calls>>
     ELSE /\ Len(calls) < MaxCalls
          /\ results' = UpdateStatus(results, ActiveResult.id, EXPORTING)
          /\ calls' = Append(calls, [kind |-> "export", id |-> ActiveResult.id,
                                     sheetName |-> ActiveResult.name,
                                     data |-> ActiveResult.data,
                                     accessToken |-> googleAccessToken,
                                     spreadsheetId |-> sheetConfig.spreadsheetId,
                                     statusBefore |-> ActiveResult.status,
                                     syncNo |-> 0,
                                     shared |-> TRUE,
                                     exported |-> ActiveResult.data,
                                     orphan |-> FALSE])
  /\ UNCHANGED <<activeResultId, googleAccessToken, sheetConfig, now, readers,
                 editingTabId, editingName, loginPending, nUploads, download, syncVars>>

\* handleExportToSheets after the await, the try branch.
ExportResolved(i) ==
  /\ i \in 1..Len(calls)
  /\ calls[i].kind = "export"
  /\ results' = UpdateStatus(results, calls[i].id, SUCCESS)
  /\ calls' = RemoveAt(calls, i)
  /\ UNCHANGED <<activeResultId, googleAccessToken, sheetConfig, now, readers,
                 editingTabId, editingName, loginPending, nUploads, download, syncVars>>

\* String.prototype.includes
StrIncludes(str, part) ==
  \E i \in 1..(Len(str) - Len(part) + 1) : SubSeq(str, i, i + Len(part) - 1) = part

\* error.message.includes("401") || error.message.includes("unauthorized")
SaysExpired(message) == StrIncludes(message, "401") \/ StrIncludes(message, "unauthorized")

\* What exportToGoogleSheet can throw, where its run is not followed.
ExportErrors ==
  {[message |-> "Failed to append row"],
   [message |-> "Request had invalid authentication credentials."],
   [message |-> "Error 401: unauthorized"]}

\* handleExportToSheets after the await, the catch branch.
ExportRejected(i, error) ==
  /\ i \in 1..Len(calls)
  /\ calls[i].kind = "export"
  /\ results' = UpdateStatus(results, calls[i].id, SUCCESS)
  /\ googleAccessToken' = IF SaysExpired(error.message) THEN Null ELSE googleAccessToken
  /\ calls' = RemoveAt(calls, i)
  /\ UNCHANGED <<activeResultId, sheetConfig, now, readers,
                 editingTabId, editingName, loginPending, nUploads, download, syncVars>>

\* ------------------------------------------- the export handler and its sync
\* await exportToGoogleSheet(spreadsheetId, token, data, sheetName): the call
\* at position i of the calls in flight enters exportToGoogleSheet. One sync
\* call is followed at a time.
ExportCallEnters(i) ==
  /\ i \in 1..Len(calls)
  /\ calls[i].kind = "export"
  /\ calls[i].syncNo = 0
  /\ \A j \in 1..Len(calls) : calls[j].kind = "export" => calls[j].syncNo = 0
  /\ sync.pc \in {"idle", "done", "failed"}
  /\ sync.n < MaxSyncs
  /\ sync' = Entered([sync EXCEPT !.spreadsheetId = calls[i].spreadsheetId,
                                  !.accessToken = calls[i].accessToken,
                                  !.data = calls[i].data,
                                  !.sheetName = Text(calls[i].sheetName)],
                     sheet.row1)
  /\ calls' = [calls EXCEPT ![i].syncNo = sync.n + 1]
  /\ UNCHANGED <<results, activeResultId, googleAccessToken, sheetConfig, now, readers,
                 editingTabId, editingName, loginPending, nUploads, download, sheet>>

Runs(i) == i \in 1..Len(calls) /\ calls[i].kind = "export" /\ calls[i].syncNo = sync.n

\* exportToGoogleSheet has returned: the try branch goes on.
ExportReturns(i) ==
  /\ Runs(i)
  /\ sync.pc = "done"
  /\ ExportResolved(i)

\* exportToGoogleSheet has thrown: the catch branch.
ExportThrows(i) ==
  /\ Runs(i)
  /\ sync.pc = "failed"
  /\ ExportRejected(i, [message |-> sync.error])

\* downloadCSV: the header line and the lines of the file. A line is kept as
\* the sequence of its cells, each written between double quotes; join(",")
\* and join("\n") put them together.
CsvQuote(c) == "\"" \o c \o "\""

CsvLine(cells) == [i \in 1..Len(cells) |-> CsvQuote(cells[i])]

CsvHeaders(resultData) ==
  IF Len(resultData.tables) > 0
  THEN GlobalHeaders(resultData) \o resultData.tables[1].headers
  ELSE GlobalHeaders(resultData)

CsvRows(resultData) ==
  IF Len(resultData.tables) > 0
  THEN [r \in 1..Len(resultData.tables[1].rows) |->
          GlobalValues(resultData) \o resultData.tables[1].rows[r].values]
  ELSE <<GlobalValues(resultData)>>

CsvContent(resultData) ==
  [headers |-> CsvLine(CsvHeaders(resultData)),
   rows |-> [r \in 1..Len(CsvRows(resultData)) |-> CsvLine(CsvRows(resultData)[r])]]

\* The "CSV" button (enabled with data): downloadCSV.
DownloadCSV ==
  /\ HasData
  /\ download' = <<CsvContent(ActiveResult.data)>>
  /\ UNCHANGED <<results, activeResultId, googleAccessToken, sheetConfig, now, readers,
                 calls, editingTabId, editingName, loginPending, nUploads, syncVars>>

\* ---------------------------------------------------------------- session
SessionIdle ==
  /\ results = <<>>
  /\ activeResultId = Null
  /\ googleAccessToken = Null
  /\ sheetConfig = [spreadsheetId |-> "", clientId |-> ""]
  /\ now = 1
  /\ readers = <<>>
  /\ calls = <<>>
  /\ editingTabId = Null
  /\ editingName = <<>>
  /\ loginPending = 0
  /\ nUploads = 0
  /\ download = <<>>

SyncIdle ==
  /\ sheet = [exists |-> FALSE, row1 |-> <<>>, rows |-> <<>>]
  /\ sync = SyncCall("", "", EmptyData)

\* The state after construction.
Init ==
  /\ SessionIdle
  /\ SyncIdle

\* The session of a user who has filled in the settings and connected,
\* before the first upload.
Connected ==
  /\ results = <<>>
  /\ activeResultId = Null
  /\ googleAccessToken = "tok"
  /\ sheetConfig = [spreadsheetId |-> "sid", clientId |-> "cid"]
  /\ now = 1
  /\ readers = <<>>
  /\ calls = <<>>
  /\ editingTabId = Null
  /\ editingName = <<>>
  /\ loginPending = 0
  /\ nUploads = 0
  /\ download = <<>>

Upload ==
  \/ \E viaDrop \in BOOLEAN : HandleFile(viaDrop)
  \/ \E i \in 1..Len(readers) : HandleImageSelect(i)
  \/ Tick
  \/ \E i \in 1..Len(calls), parsed \in ParsedResponses : ExtractionResolved(i, parsed)
  \/ \E i \in 1..Len(calls), message \in ExtractionErrors : ExtractionRejected(i, message)

Tabs ==
  \/ \E i \in 1..Len(results) : SelectTab(i)
  \/ \E i \in 1..Len(results) : HandleCloseTab(i)
  \/ \E i \in 1..Len(results) : HandleStartEditing(i)
  \/ \E text \in TypedNames : TypeName(text)
  \/ HandleFinishEditing
  \/ CancelEditing
  \/ \E newData \in EditedData : EditorChange(newData)
  \/ TryAgain

Settings ==
  \/ \E v \in {"", "sid"} : SetSpreadsheetId(v)
  \/ \E v \in {"", "cid"} : SetClientId(v)
  \/ HandleGoogleLogin
  \/ \E accessToken \in {Null, "tok"} : TokenCallback(accessToken)

Export ==
  \/ HandleExportToSheets
  \/ \E i \in 1..Len(calls) : ExportResolved(i)
  \/ \E i \in 1..Len(calls), error \in ExportErrors : ExportRejected(i, error)

\* The session store: uploads, tabs, editor and exports, started without
\* settings or connected.
InitStore == (SessionIdle \/ Connected) /\ SyncIdle
NextStore == Upload \/ Tabs \/ Export
Spec == InitStore /\ [][NextStore]_vars

\* The session store under the assumption that every outstanding remote call
\* resolves: the oldest call in flight is not left waiting for ever, so each
\* call in flight comes to be the oldest and settles.
OldestSettles ==
  \/ \E parsed \in ParsedResponses : ExtractionResolved(1, parsed)
  \/ \E message \in ExtractionErrors : ExtractionRejected(1, message)
  \/ ExportResolved(1)
  \/ \E error \in ExportErrors : ExportRejected(1, error)

NextLive ==
  \/ Upload
  \/ Export
  \/ \E i \in 1..Len(results) : SelectTab(i)
  \/ \E i \in 1..Len(results) : HandleCloseTab(i)

SpecLive == InitStore /\ [][NextLive]_vars /\ WF_vars(OldestSettles)

\* The whole session, settings dialog and login included.
Next == Upload \/ Tabs \/ Settings \/ Export
SpecSession == Init /\ [][Next]_vars

\* The tab strip over a collection of finished Results. The ids follow the
\* clock, which does not run backwards here, so they do not decrease along
\* the collection.
FinishedResult(k, t) ==
  [id |-> ResultId(t), name |-> ResultName(k), image |-> ImageOf(k),
   data |-> DataB, status |-> SUCCESS, errorMessage |-> Null]

ClockReadings(n) ==
  {ts \in [1..n -> 1..MaxTabs] : \A k \in 1..(n - 1) : ts[k] <= ts[k + 1]}

Collections ==
  UNION {{[k \in 1..n |-> FinishedResult(k, ts[k])] : ts \in ClockReadings(n)} :
         n \in 0..MaxTabs}

InitTabs ==
  /\ results \in Collections
  /\ activeResultId \in IF results = <<>> THEN {Null} ELSE {results[k].id : k \in 1..Len(results)}
  /\ googleAccessToken = Null
  /\ sheetConfig = [spreadsheetId |-> "", clientId |-> ""]
  /\ now = MaxTabs
  /\ readers = <<>>
  /\ calls = <<>>
  /\ editingTabId = Null
  /\ editingName = <<>>
  /\ loginPending = 0
  /\ nUploads = Len(results)
  /\ download = <<>>
  /\ SyncIdle

NextTabs ==
  \/ \E i \in 1..Len(results) : SelectTab(i)
  \/ \E i \in 1..Len(results) : HandleCloseTab(i)
  \/ \E i \in 1..Len(results) : HandleStartEditing(i)
  \/ \E text \in TypedNames : TypeName(text)
  \/ HandleFinishEditing
  \/ CancelEditing

SpecTabs == InitTabs /\ [][NextTabs]_vars

\* The CSV download of one Result whose extraction returned d.
ExtractedResult(d) ==
  [id |-> ResultId(1), name |-> ResultName(1), image |-> ImageOf(1),
   data |-> d, status |-> SUCCESS, errorMessage |-> Null]

InitCsv ==
  /\ results \in {<<ExtractedResult(d)>> : d \in SyncData}
  /\ activeResultId = ResultId(1)
  /\ googleAccessToken = Null
  /\ sheetConfig = [spreadsheetId |-> "", clientId |-> ""]
  /\ now = 1
  /\ readers = <<>>
  /\ calls = <<>>
  /\ editingTabId = Null
  /\ editingName = <<>>
  /\ loginPending = 0
  /\ nUploads = 1
  /\ download = <<>>
  /\ SyncIdle

NextCsv == DownloadCSV

SpecCsv == InitCsv /\ [][NextCsv]_vars

\* The export handler of a connected session with one extracted Result, each
\* export followed through its sync call on the sheet; the user can connect
\* again after the token is dropped.
HandlerData == {DataB, DataC}
HandlerNames == {ResultName(1), <<"Invoice", " ", "401">>}

InitHandler ==
  /\ results \in {<<[ExtractedResult(d) EXCEPT !.name = name]>> :
                     d \in HandlerData, name \in HandlerNames}
  /\ activeResultId = ResultId(1)
  /\ googleAccessToken = "tok"
  /\ sheetConfig = [spreadsheetId |-> "sid", clientId |-> "cid"]
  /\ now = 1
  /\ readers = <<>>
  /\ calls = <<>>
  /\ editingTabId = Null
  /\ editingName = <<>>
  /\ loginPending = 0
  /\ nUploads = 1
  /\ download = <<>>
  /\ sheet \in Sheets
  /\ sync = SyncCall("", "", EmptyData)

NextHandler ==
  \/ HandleExportToSheets
  \/ \E i \in 1..Len(calls) : ExportCallEnters(i)
  \/ \E o \in Outcomes, msg \in MetaMessages : MetaResp(o, msg)
  \/ \E o \in Outcomes : CreateResp(o)
  \/ \E o \in Outcomes : ReadResp(o)
  \/ \E o \in Outcomes : WriteResp(o)
  \/ \E o \in Outcomes, msg \in AppendMessages : AppendResp(o, msg)
  \/ \E i \in 1..Len(calls) : ExportReturns(i)
  \/ \E i \in 1..Len(calls) : ExportThrows(i)
  \/ HandleGoogleLogin
  \/ \E accessToken \in {Null, "tok"} : TokenCallback(accessToken)

SpecHandler == InitHandler /\ [][NextHandler]_vars

\* The same with uploads, every way a call can be started, from one
\* Result and a spreadsheet that has no sheet for it yet.
InitOperations ==
  /\ InitHandler
  /\ results = <<ExtractedResult(DataB)>>
  /\ ~sheet.exists

NextOperations == NextHandler \/ Upload
SpecOperations == InitOperations /\ [][NextOperations]_vars

\* The same with the spreadsheet id of the settings dialog edited at any time.
\* The handler reaches the first fetch of the service without yielding, so
\* an edit falls before an invocation or after the call has entered.
EditSpreadsheetId(v) ==
  /\ \A j \in 1..Len(calls) : calls[j].kind = "export" => calls[j].syncNo # 0
  /\ SetSpreadsheetId(v)

NextGuards == NextHandler \/ \E v \in {"", "sid"} : EditSpreadsheetId(v)
SpecGuards == InitOperations /\ [][NextGuards]_vars

\* The editor at work on the one Result while its export runs.
NextEditor ==
  \/ HandleExportToSheets
  \/ \E i \in 1..Len(calls) : ExportCallEnters(i)
  \/ \E o \in Outcomes, msg \in MetaMessages : MetaResp(o, msg)
  \/ \E o \in Outcomes : CreateResp(o)
  \/ \E o \in Outcomes : ReadResp(o)
  \/ \E o \in Outcomes : WriteResp(o)
  \/ \E o \in Outcomes, msg \in AppendMessages : AppendResp(o, msg)
  \/ \E i \in 1..Len(calls) : ExportReturns(i)
  \/ \E i \in 1..Len(calls) : ExportThrows(i)
  \/ \E newData \in EditedData : EditorChange(newData)
  \/ \E tableIndex \in 1..MaxTables : AddTableRow(tableIndex)
  \/ \E tableIndex \in 1..MaxTables, rowIndex \in 1..MaxTableRows :
       DeleteTableRow(tableIndex, rowIndex)

SpecEditor == InitOperations /\ [][NextEditor]_vars

\* call answered in every way.
InitSync ==
  /\ SessionIdle
  /\ sheet \in Sheets
  /\ sync \in {SyncCall(sid, tok, d) : sid \in {"", "sid"}, tok \in {"", "tok"},
                                       d \in ProtocolData}

NextSync ==
  \/ SyncStart
  \/ \E o \in Outcomes, msg \in MetaMessages : MetaResp(o, msg)
  \/ \E o \in Outcomes : CreateResp(o)
  \/ \E o \in Outcomes : ReadResp(o)
  \/ \E o \in Outcomes : WriteResp(o)
  \/ \E o \in Outcomes, msg \in AppendMessages : AppendResp(o, msg)

SpecSync == InitSync /\ [][NextSync]_vars

\* One sync of any SyncData in which every remote call succeeds.
InitExport ==
  /\ SessionIdle
  /\ sheet \in Sheets
  /\ sync \in {SyncCall("sid", "tok", d) : d \in SyncData}

FirstSync == sync.pc = "idle" /\ SyncStart

NextExport ==
  \/ FirstSync
  \/ MetaResp("ok", Null)
  \/ CreateResp("ok")
  \/ ReadResp("ok")
  \/ WriteResp("ok")
  \/ AppendResp("ok", Null)

SpecExport == InitExport /\ [][NextExport]_vars

\* The sync of one Result under every sheet name of up to MaxNameLen
\* characters that are a letter, an underscore, a space or a single quote;
\* the remote answers the append with success or with an error that quotes
\* the range of the request.
NameChars == {"a", "_", " ", "'"}
SheetNames == {Text(cs) : cs \in SeqsUpTo(NameChars, MaxNameLen)}

InitFormat ==
  /\ SessionIdle
  /\ sheet = [exists |-> FALSE, row1 |-> <<>>, rows |-> <<>>]
  /\ sync \in {[SyncCall("sid", "tok", DataB) EXCEPT !.sheetName = name] :
                 name \in SheetNames}

NextFormat ==
  \/ FirstSync
  \/ MetaResp("ok", Null)
  \/ CreateResp("ok")
  \/ ReadResp("ok")
  \/ WriteResp("ok")
  \/ \E o \in {"ok", "error"} : AppendResp(o, "Unable to parse range: " \o AppendRange)

SpecFormat == InitFormat /\ [][NextFormat]_vars

\* One call over all data of the bounds, run by the named-sheet variant
\* (called for "Result 1") or by the first-sheet variant, on a spreadsheet
\* whose metadata lists the sheets in any of TitleLists; the metadata request
\* and the header read of the first-sheet variant succeed or fail.
InitVariants ==
  /\ SessionIdle
  /\ sheet \in Sheets
  /\ sync \in {SyncCall("sid", "tok", d) : d \in SyncData}

NextVariants ==
  \/ FirstSync
  \/ MetaResp("ok", Null)
  \/ CreateResp("ok")
  \/ \E o \in {"ok", "error"}, titles \in TitleLists :
       FirstSheetMetaResp(o, "Failed to access spreadsheet. Check ID and permissions.",
                          titles)
  \/ \E o \in {"ok", "error"} : ReadResp(o)
  \/ WriteResp("ok")
  \/ AppendResp("ok", Null)

SpecVariants == InitVariants /\ [][NextVariants]_vars

\* ================================================================== claims
\* Where a sync call stands.
Flattened == sync.pc \in {"read", "write", "append", "done"}
Unioned == sync.pc \in {"write", "append", "done"}
RowsMapped == sync.pc \in {"append", "done"}
Ended == sync.pc \in {"done", "failed"}

\* C5: after a sync call, whatever its remote calls answered, the row 1 the
\* call found is a prefix of row 1 (stated as the claim states it; the code
\* breaks it when the header read is answered with a non-success status).
C5_Row1PrefixKept == Ended => IsPrefix(sync.preRow1, sheet.row1)

\* The positions of finalHeaders whose entry is not among the existing
\* headers and stands there for the first time.
FreshPositions(finalHeaders, existingHeaders) ==
  {i \in 1..Len(finalHeaders) :
     /\ \A k \in 1..Len(existingHeaders) : existingHeaders[k] # finalHeaders[i]
     /\ \A j \in 1..(i - 1) : finalHeaders[j] # finalHeaders[i]}

\* The k-th smallest member of a set of positions.
NthOf(P, k) == CHOOSE i \in P : Cardinality({j \in P : j < i}) = k - 1

\* C6: masterHeaders is the existing headers, in their order, followed by the
\* finalHeaders entries that are not among them, each once, in the order of
\* their first occurrence in finalHeaders.
C6_MasterIsExistingThenFresh ==
  Unioned =>
    LET e == sync.loc.existingHeaders
        f == sync.loc.finalHeaders
        m == sync.loc.masterHeaders
        P == FreshPositions(f, e)
    IN  /\ Len(m) = Len(e) + Cardinality(P)
        /\ \A i \in 1..Len(e) : m[i] = e[i]
        /\ \A k \in 1..Cardinality(P) : m[Len(e) + k] = f[NthOf(P, k)]

\* C6 witness: a union over existing headers (one of them repeated locally)
\* and local headers with a repeat and a new entry.
C6_Witness ==
  /\ sync.pc = "done"
  /\ sync.loc.existingHeaders = <<"Date", "Vendor">>
  /\ sync.loc.finalHeaders = <<"Item", "Date", "Item">>
  /\ sync.loc.masterHeaders = <<"Date", "Vendor", "Item">>

\* C7: every row of the append call has as many cells as masterHeaders, and
\* its cell under a master header is the local row's cell at the first
\* position of that header in finalHeaders, or "" when finalHeaders has no
\* such header.
C7_RowsFollowMaster ==
  RowsMapped =>
    LET f == sync.loc.finalHeaders
        m == sync.loc.masterHeaders
        sent == sync.loc.formattedRows
        local == sync.loc.rowsToAppend
    IN  /\ Len(sent) = Len(local)
        /\ \A r \in 1..Len(sent) :
             /\ Len(sent[r]) = Len(m)
             /\ \A c \in 1..Len(m) :
                  \/ /\ \A p \in 1..Len(f) : f[p] # m[c]
                     /\ sent[r][c] = ""
                  \/ \E p \in 1..Len(f) :
                       /\ f[p] = m[c]
                       /\ \A q \in 1..(p - 1) : f[q] # m[c]
                       /\ p <= Len(local[r])
                       /\ sent[r][c] = local[r][p]

\* C7 witness: remote [Date, Vendor], local [Date, Item]: master
\* [Date, Vendor, Item] and an appended row with "" under Vendor.
C7_Witness ==
  /\ sync.pc = "done"
  /\ sync.loc.existingHeaders = <<"Date", "Vendor">>
  /\ sync.loc.finalHeaders = <<"Date", "Item">>
  /\ sync.loc.masterHeaders = <<"Date", "Vendor", "Item">>
  /\ sync.loc.formattedRows = << <<"f1", "", "9">> >>
  /\ sheet.rows = << <<"f1", "", "9">> >>

\* The field labels and the field values as text.
LabelsOf(d) == [i \in 1..Len(d.fields) |-> d.fields[i].label]
ValuesOf(d) == [i \in 1..Len(d.fields) |-> String(d.fields[i].value)]

\* C8 as stated: finalHeaders is the field labels followed by the headers of
\* tables[1]; with a table, one row per table row, each the field values
\* followed by that row's values; without one, the one row of field values.
C8_FlattenAsStated ==
  Flattened =>
    LET d == sync.data
    IN  IF Len(d.tables) = 0
        THEN /\ sync.loc.finalHeaders = LabelsOf(d)
             /\ sync.loc.rowsToAppend = <<ValuesOf(d)>>
        ELSE /\ sync.loc.finalHeaders = LabelsOf(d) \o d.tables[1].headers
             /\ Len(sync.loc.rowsToAppend) = Len(d.tables[1].rows)
             /\ \A r \in 1..Len(d.tables[1].rows) :
                  sync.loc.rowsToAppend[r] =
                    ValuesOf(d) \o StringAll(d.tables[1].rows[r].values)

\* The row's values, with "" added up to n cells when there are fewer.
PaddedTo(vals, n) ==
  vals \o [i \in 1..(IF Len(vals) < n THEN n - Len(vals) ELSE 0) |-> ""]

\* C8 amended: as C8, with each table row's values padded with "" up to the
\* number of headers of tables[1] when the row has fewer.
C8_FlattenPadded ==
  Flattened =>
    LET d == sync.data
    IN  IF Len(d.tables) = 0
        THEN /\ sync.loc.finalHeaders = LabelsOf(d)
             /\ sync.loc.rowsToAppend = <<ValuesOf(d)>>
        ELSE /\ sync.loc.finalHeaders = LabelsOf(d) \o d.tables[1].headers
             /\ Len(sync.loc.rowsToAppend) = Len(d.tables[1].rows)
             /\ \A r \in 1..Len(d.tables[1].rows) :
                  sync.loc.rowsToAppend[r] =
                    ValuesOf(d) \o PaddedTo(StringAll(d.tables[1].rows[r].values),
                                            Len(d.tables[1].headers))

\* C8 witness: two tables, a field, and a first table whose row is one short
\* of its two headers.
C8_Witness ==
  /\ Flattened
  /\ Len(sync.data.tables) = 2
  /\ Len(sync.data.fields) = 1
  /\ sync.data.tables[1].headers = <<"Date", "Item">>
  /\ sync.loc.finalHeaders = <<"Item", "Date", "Item">>
  /\ sync.loc.rowsToAppend = << <<"f1", "r1c1", "">> >>

\* C9: on a sheet without headers the rows of the append call are the
\* flattened rows, unchanged (stated as the claim states it; the code merges
\* repeated headers and cuts a row longer than the header list).
C9_RowsUnchangedOnEmptySheet ==
  (RowsMapped /\ sync.loc.existingHeaders = <<>>) =>
     sync.loc.formattedRows = sync.loc.rowsToAppend

\* C10: a second sync of the same data on a sheet whose row 1 is the
\* masterHeaders of the first issues no header write (stated as the claim
\* states it; the code writes when the header read is not answered).
C10_SecondSyncWritesNoHeader ==
  (/\ sync.n >= 2
   /\ sync.prev.pc = "done"
   /\ sync.preRow1 = sync.prev.masterHeaders) =>
     \A i \in 1..Len(sync.reqs) : sync.reqs[i] # "write"

\* The union applied again to its own result adds nothing.
UnionIdempotent ==
  Unioned =>
    LET u == HeaderUnion(sync.loc.masterHeaders, sync.loc.finalHeaders)
    IN  u.masterHeaders = sync.loc.masterHeaders /\ ~u.headersChanged


\* ------------------------------------------------------------ session claims
ActivePositions == {i \in 1..Len(results) : results[i].id = activeResultId}

\* The active id is null or the id of some Result of the collection.
ActiveIsPresent == activeResultId = Null \/ HasActive

\* C1: in every reachable state the active id is null or the id of a Result
\* of the collection, and at most one Result is the active one.
C1_AtMostOneActive ==
  \/ activeResultId = Null
  \/ Cardinality(ActivePositions) = 1

\* The positions of the Results that do not carry the id.
Kept(rs, id) == {k \in 1..Len(rs) : rs[k].id # id}

\* C2: closing the tab of id removes what carries that id and keeps the
\* others in their order; a closed active id gives way to the id of the last
\* Result that remains, or to null when none remains; another active id stays.
C2_CloseRemovesAndReactivates ==
  [][\A i \in 1..Len(results) :
       HandleCloseTab(i) =>
         LET id == results[i].id
             K == Kept(results, id)
         IN  /\ Len(results') = Cardinality(K)
             /\ \A n \in 1..Cardinality(K) : results'[n] = results[NthOf(K, n)]
             /\ IF activeResultId = id
                THEN activeResultId' = IF results' = <<>> THEN Null
                                       ELSE results'[Len(results')].id
                ELSE activeResultId' = activeResultId]_vars

\* The first of three tabs was the active one and has been closed: the
\* last of the two that remain is active, and it is not the first.
C2_Witness ==
  /\ Len(results) = 2
  /\ nUploads = 3
  /\ results[1].image = ImageOf(2)
  /\ results[2].image = ImageOf(3)
  /\ results[1].id # results[2].id
  /\ activeResultId = results[2].id

\* The call at position i of the calls in flight settles.
Completion(i) ==
  \/ \E parsed \in ParsedResponses : ExtractionResolved(i, parsed)
  \/ \E message \in ExtractionErrors : ExtractionRejected(i, message)
  \/ ExportResolved(i)
  \/ \E error \in ExportErrors : ExportRejected(i, error)

\* C3: when the call of a closed Result settles, the collection and the
\* active id stay as they were.
C3_LateCompletionChangesNothing ==
  [][\A i \in 1..Len(calls) :
       (calls[i].orphan /\ Completion(i)) => UNCHANGED <<results, activeResultId>>]_vars

\* The operations addressed to one Result.
AddressedOperation ==
  \/ \E i \in 1..Len(calls) : Completion(i)
  \/ HandleExportToSheets
  \/ HandleFinishEditing
  \/ \E newData \in EditedData : EditorChange(newData)

\* C4: an operation addressed to one Result changes that Result only, so it
\* keeps the length and the order of the collection and changes at most one
\* of its Results.
C4_OnlyOneResultChanges ==
  [][AddressedOperation =>
       /\ Len(results') = Len(results)
       /\ Cardinality({k \in 1..Len(results) : results'[k] # results[k]}) <= 1]_vars


\* C11: a downloaded CSV file has, in every line, as many cells as its header
\* line, a short table row having been filled up with empty cells (stated as
\* the claim states it; downloadCSV does not fill a short row up).
C11_CsvShortRowPadded ==
  \A f \in 1..Len(download) :
    LET d == ActiveResult.data
    IN  Len(d.tables) > 0 =>
          \A r \in 1..Len(d.tables[1].rows) :
            Len(d.tables[1].rows[r].values) < Len(d.tables[1].headers) =>
              /\ r <= Len(download[f].rows)
              /\ Len(download[f].rows[r]) = Len(download[f].headers)


\* The data of the Results, in the order of the collection.
DataOf(rs) == [k \in 1..Len(rs) |-> rs[k].data]

\* The export call at position i of the calls in flight fails.
ExportFails(i) == \E error \in ExportErrors : ExportRejected(i, error)

\* C12: an export that fails leaves the exported Result in the status it had
\* before the export began; no step of an export, failed or not, changes the
\* data of a Result.
C12_FailedExportRestoresStatus ==
  [][/\ \A i \in 1..Len(calls) :
          ExportFails(i) =>
            /\ DataOf(results') = DataOf(results)
            /\ \A k \in 1..Len(results) :
                 results[k].id = calls[i].id => results'[k].status = calls[i].statusBefore
     /\ \A i \in 1..Len(calls) : ExportResolved(i) => DataOf(results') = DataOf(results)
     /\ HandleExportToSheets => DataOf(results') = DataOf(results)]_vars


\* The handler of the export call at position i finishes.
HandlerFinishes(i) == ExportReturns(i) \/ ExportThrows(i)

\* C13: when a request of a sync was answered with the status 401, the token
\* is null once the export handler has finished, and no data has changed
\* (stated as the claim states it; the handler looks for "401" and
\* "unauthorized" in the message, which the answer need not hold).
C13_UnauthorizedClearsToken ==
  [][\A i \in 1..Len(calls) :
       (sync.unauthorized /\ HandlerFinishes(i)) =>
         /\ googleAccessToken' = Null
         /\ DataOf(results') = DataOf(results)]_vars

\* C14: the stored token goes from null to a value only in a login callback
\* that delivers an access token, and from a value to null only at the end of
\* an export whose sync had a request answered with an authorization failure;
\* no other step changes it.
C14_TokenChangesOnlyAsStated ==
  [][/\ (googleAccessToken = Null /\ googleAccessToken' # Null) =>
          \E accessToken \in {"tok"} : TokenCallback(accessToken)
     /\ (googleAccessToken # Null /\ googleAccessToken' = Null) =>
          /\ sync.unauthorized
          /\ \E i \in 1..Len(calls) : ExportThrows(i)]_vars

\* C15: a sync call fails when its metadata request or its append request is
\* answered with a non-success status; a call failed at the metadata request
\* has issued that one request only and has left the sheet as it was, and a
\* failed call issues nothing more and changes the sheet no more.
C15_NonSuccessFailsTheCall ==
  [][/\ \A o \in Outcomes, msg \in MetaMessages :
          (NotOk(o) /\ MetaResp(o, msg)) =>
            /\ sync'.pc = "failed"
            /\ sync'.reqs = <<"meta">>
            /\ sheet' = sheet
     /\ \A o \in Outcomes, msg \in AppendMessages :
          (NotOk(o) /\ AppendResp(o, msg)) => sync'.pc = "failed"
     /\ (sync.pc = "failed" /\ sync'.n = sync.n) =>
          (sync'.reqs = sync.reqs /\ sheet' = sheet)]_vars

\* A call failed by the status of its metadata response.
C15_Witness ==
  /\ sync.pc = "failed"
  /\ sync.reqs = <<"meta">>
  /\ sync.error \in MetaMessages

\* The header read is answered with a non-success status, or with a body
\* that has no values.
ReadGivesNothing(o) ==
  NotOk(o) \/ (o = "ok" /\ RemoteHeaderRead(sheet.row1) = <<>>)

\* C16: a header read answered with a non-success status or without values
\* does not fail the call: the call goes on with existingHeaders = <<>>,
\* issues the header write when finalHeaders is not empty, and issues the
\* append (after the answer to the header write, when there is one).
C16_FailedReadIsNoHeaders ==
  [][/\ \A o \in Outcomes :
          (ReadGivesNothing(o) /\ ReadResp(o)) =>
            /\ sync'.pc # "failed"
            /\ sync'.loc.existingHeaders = <<>>
            /\ sync'.loc.masterHeaders =
                 HeaderUnion(<<>>, sync.loc.finalHeaders).masterHeaders
            /\ sync'.reqs = Append(sync.reqs,
                                   IF sync.loc.finalHeaders # <<>> THEN "write"
                                   ELSE "append")
     /\ \A o \in Outcomes :
          (o # "reject" /\ WriteResp(o)) =>
            sync'.reqs = Append(sync.reqs, "append")]_vars

\* The read of a sheet that has headers was answered with a non-success
\* status, and the header write is under way.
C16_Witness ==
  /\ sync.pc = "write"
  /\ sync.loc.existingHeaders = <<>>
  /\ sheet.row1 # <<>>

\* The orders in which one call can issue all its requests.
FullOrders ==
  {<<"meta", "read", "append">>,
   <<"meta", "create", "read", "append">>,
   <<"meta", "read", "write", "append">>,
   <<"meta", "create", "read", "write", "append">>}

Count(seq, x) == Cardinality({k \in 1..Len(seq) : seq[k] = x})

\* C17: the requests of one call are issued in the order metadata, create
\* (optional), header read, header write (optional), append, each at most
\* once; the request awaited is the last one issued; a call that reaches the
\* append has read the header exactly once, its masterHeaders and its
\* formatted rows come from the headers of that read, and a finished call has
\* the append as its last request.
C17_RequestsInOrder ==
  /\ \E full \in FullOrders : IsPrefix(sync.reqs, full)
  /\ sync.pc \in {"meta", "create", "read", "write", "append"} =>
       (sync.reqs # <<>> /\ sync.reqs[Len(sync.reqs)] = sync.pc)
  /\ sync.pc \in {"write", "append", "done"} =>
       /\ Count(sync.reqs, "read") = 1
       /\ sync.loc.masterHeaders =
            HeaderUnion(sync.loc.existingHeaders, sync.loc.finalHeaders).masterHeaders
  /\ sync.pc \in {"append", "done"} =>
       /\ sync.reqs[Len(sync.reqs)] = "append"
       /\ sync.loc.formattedRows =
            FormattedRows(sync.loc.rowsToAppend, sync.loc.masterHeaders,
                          sync.loc.finalHeaders)

\* A finished call that issued all five requests.
C17_Witness ==
  /\ sync.pc = "done"
  /\ sync.reqs = <<"meta", "create", "read", "write", "append">>

\* The metadata has been fetched with success in this step.
MetaFetched == sync.pc = "meta" /\ sync'.pc \in {"create", "read"}

\* The current call issues the create-sheet request in this step.
IssuesCreate ==
  /\ sync'.n = sync.n
  /\ sync'.reqs = Append(sync.reqs, "create")

\* C18: the create-sheet request is issued exactly when the fetched metadata
\* lists no sheet whose title equals the target name; it is issued on the
\* metadata response, before any header read, and never for a sheet that
\* exists.
C18_CreateIffNotListed ==
  [][/\ MetaFetched =>
          (IssuesCreate <=>
             \A t \in MetaTitles(sheet, sync.sheetName) : t # sync.sheetName)
     /\ IssuesCreate =>
          /\ MetaFetched
          /\ ~sheet.exists
          /\ ~Includes(sync.reqs, "read")]_vars

\* A call found the sheet missing, created it, and went on to the header
\* read.
C18_Witness ==
  /\ sync.reqs = <<"meta", "create", "read">>
  /\ sheet.exists
  /\ sync.pc = "read"

\* Every call made so far has reported success (one call or two).
AllSucceeded ==
  /\ sync.pc = "done"
  /\ sync.n = 1 \/ (sync.n = 2 /\ sync.prev.pc = "done")

\* C19: after calls that all reported success, row 1 of the sheet is the
\* masterHeaders of the last call, and each row the last call appended holds
\* under every header of row 1 the local row's value for that header, or ""
\* when the call's data has no such header.
C19_SheetAlignedAfterSuccess ==
  AllSucceeded =>
    LET f == sync.loc.finalHeaders
        local == sync.loc.rowsToAppend
        first == Len(sheet.rows) - Len(local)
    IN  /\ sheet.row1 = sync.loc.masterHeaders
        /\ first >= 0
        /\ \A r \in 1..Len(local) :
             LET row == sheet.rows[first + r]
             IN  \A c \in 1..Len(sheet.row1) :
                   LET cell == IF c <= Len(row) THEN row[c] ELSE ""
                   IN  \/ /\ \A p \in 1..Len(f) : f[p] # sheet.row1[c]
                          /\ cell = ""
                       \/ \E p \in 1..Len(f) :
                            /\ f[p] = sheet.row1[c]
                            /\ \A q \in 1..(p - 1) : f[q] # sheet.row1[c]
                            /\ p <= Len(local[r])
                            /\ cell = local[r][p]

\* C20: an upload leaves the Results there are as they are and appends one
\* Result with status ANALYZING, empty data, no error message and the name
\* "Result N", N being the number of Results before it plus one; the new
\* Result's id becomes the active id.
C20_UploadAppendsResultN ==
  [][\A i \in 1..Len(readers) :
       HandleImageSelect(i) =>
         /\ Len(results') = Len(results) + 1
         /\ SubSeq(results', 1, Len(results)) = results
         /\ LET newResult == results'[Len(results')]
            IN  /\ newResult.status = ANALYZING
                /\ newResult.data = EmptyData
                /\ newResult.errorMessage = Null
                /\ newResult.name = ResultName(Len(results) + 1)
                /\ activeResultId' = newResult.id]_vars

\* C21: no two Results of the collection have the same id.
C21_IdsAreUnique ==
  \A i, j \in 1..Len(results) : results[i].id = results[j].id => i = j

\* The Result made from the k-th file handed to the uploader.
IsUpload(r, k) == r.image = ImageOf(k)

AnalyzingUpload(k) ==
  \E i \in 1..Len(results) : IsUpload(results[i], k) /\ results[i].status = ANALYZING

ExportingUpload(k) ==
  \E i \in 1..Len(results) : IsUpload(results[i], k) /\ results[i].status = EXPORTING

\* Closed, or SUCCESS with extracted data, or ERROR with a message and the
\* data still empty.
SettledUpload(k) ==
  \A i \in 1..Len(results) :
    IsUpload(results[i], k) =>
      \/ /\ results[i].status = SUCCESS
         /\ results[i].data \in {Coerced(parsed) : parsed \in ParsedResponses}
      \/ /\ results[i].status = ERROR
         /\ results[i].errorMessage \notin {Null, ""}
         /\ results[i].data = EmptyData

ExtractionInFlight(r) ==
  \E j \in 1..Len(calls) :
    calls[j].kind = "extract" /\ calls[j].id = r.id /\ calls[j].image = r.image

\* A sync call started for the id of r is in flight.
ExportInFlight(r) ==
  \E j \in 1..Len(calls) : calls[j].kind = "export" /\ calls[j].id = r.id

StatusHasCall ==
  \A i \in 1..Len(results) :
    /\ results[i].status = ANALYZING => ExtractionInFlight(results[i])
    /\ results[i].status = EXPORTING => ExportInFlight(results[i])

\* C23: a Result is ANALYZING only while its own extraction call is in
\* flight and EXPORTING only while a sync call for it is in flight; the
\* settling of a call, by either path, leaves the Results it is addressed
\* to in SUCCESS or ERROR.
C23_StatusFollowsCalls ==
  /\ []StatusHasCall
  /\ [][\A i \in 1..Len(calls) :
          Completion(i) =>
            \A k \in 1..Len(results') :
              results'[k].id = calls[i].id => results'[k].status \in {SUCCESS, ERROR}]_vars

\* One Result is being exported while another is being analyzed.
C23_Witness ==
  \E i, k \in 1..Len(results) :
    /\ results[i].status = EXPORTING
    /\ results[k].status = ANALYZING
    /\ results[i].id # results[k].id

CallsOfKind(cs, kind) == Cardinality({j \in 1..Len(cs) : cs[j].kind = kind})

\* A request of a sync call is issued in this step.
IssuesRequest == sync'.n # sync.n \/ Len(sync'.reqs) > Len(sync.reqs)

\* C24: nothing is retried. An extraction call is started by an upload only,
\* one per upload; an export call by an invocation of export only, one at
\* most, and it enters the sync service once; a sync request is issued only
\* for an export call in flight; the login and its callback start no call
\* and issue no request, whatever failed before.
C24_NothingRetried ==
  [][/\ \A i \in 1..Len(readers) :
          HandleImageSelect(i) =>
            /\ CallsOfKind(calls', "extract") = CallsOfKind(calls, "extract") + 1
            /\ CallsOfKind(calls', "export") = CallsOfKind(calls, "export")
     /\ CallsOfKind(calls', "extract") > CallsOfKind(calls, "extract") =>
          \E i \in 1..Len(readers) : HandleImageSelect(i)
     /\ CallsOfKind(calls', "export") > CallsOfKind(calls, "export") =>
          /\ HandleExportToSheets
          /\ CallsOfKind(calls', "export") = CallsOfKind(calls, "export") + 1
     /\ \A i \in 1..Len(calls) :
          ExportCallEnters(i) => (calls[i].syncNo = 0 /\ calls'[i].syncNo # 0)
     /\ IssuesRequest =>
          \E i \in 1..Len(calls) : ExportCallEnters(i) \/ Runs(i)
     /\ (HandleGoogleLogin \/ \E accessToken \in {Null, "tok"} : TokenCallback(accessToken)) =>
          UNCHANGED <<calls, sync, sheet, results>>]_vars

\* The user is connected again after a sync that failed and dropped the
\* token; no call is in flight.
C24_Witness ==
  /\ sync.pc = "failed"
  /\ SaysExpired(sync.error)
  /\ googleAccessToken = "tok"
  /\ calls = <<>>
  /\ loginPending = 0

\* What an extraction call can come to: a parsed response or an error.
ExtractionOutcomes ==
  {[resolved |-> TRUE, parsed |-> parsed, message |-> ""] : parsed \in ParsedResponses}
    \cup
  {[resolved |-> FALSE, parsed |-> [fields |-> NotArr, tables |-> NotArr],
    message |-> message] : message \in ExtractionErrors}

\* The collection after the extraction call c has settled with outcome.
Settled(rs, c, outcome) ==
  IF outcome.resolved
  THEN UpdateExtracted(rs, c.id, Coerced(outcome.parsed))
  ELSE UpdateFailed(rs, c.id, IF outcome.message # "" THEN outcome.message
                              ELSE "Failed to extract data.")

\* C25: with two extractions in flight, the collection after both have
\* settled is the same whichever settles first (a completion does not touch
\* the active id).
C25_CompletionOrderIrrelevant ==
  \A i, j \in 1..Len(calls) :
    (i < j /\ calls[i].kind = "extract" /\ calls[j].kind = "extract") =>
      \A oi, oj \in ExtractionOutcomes :
        Settled(Settled(results, calls[i], oi), calls[j], oj)
          = Settled(Settled(results, calls[j], oj), calls[i], oi)

\* C26: a sync call appends the rows of the data as it was when the export
\* was invoked, whatever the editor does while the call is in flight.
C26_SyncAppendsExportedRows ==
  \A i \in 1..Len(calls) :
    (Runs(i) /\ sync.pc \in {"read", "write", "append", "done"}) =>
      sync.loc.rowsToAppend = RowsToAppend(calls[i].exported)

\* C27: without renames, no two Results of the collection have the same
\* name (the name is the title of the sheet a Result is exported to).
C27_NamesAreDistinct ==
  \A i, j \in 1..Len(results) : results[i].name = results[j].name => i = j

\* C28: what an extraction stores as fields and as tables is an array: the
\* array of the parsed response, or the empty one when the response has
\* something else there; a new Result starts with empty arrays.
C28_DataHoldsArrays ==
  [][/\ \A i \in 1..Len(calls), parsed \in ParsedResponses :
          ExtractionResolved(i, parsed) =>
            /\ CoercedArray(parsed.fields).isArray
            /\ CoercedArray(parsed.tables).isArray
            /\ \A k \in 1..Len(results') :
                 results'[k].id = calls[i].id =>
                   results'[k].data =
                     [fields |-> IF parsed.fields.isArray THEN parsed.fields.items
                                 ELSE <<>>,
                      tables |-> IF parsed.tables.isArray THEN parsed.tables.items
                                 ELSE <<>>]
     /\ \A i \in 1..Len(readers) :
          HandleImageSelect(i) => results'[Len(results')].data = EmptyData]_vars

\* A response without arrays has been stored: a Result is SUCCESS with empty
\* fields and tables.
C28_Witness ==
  \E i \in 1..Len(results) :
    results[i].status = SUCCESS /\ results[i].data = EmptyData

\* An invocation of export with an empty spreadsheet id, without token or
\* without active Result changes no Result.
GuardedExportChangesNothing ==
  (HandleExportToSheets /\ (sheetConfig.spreadsheetId = "" \/ googleAccessToken = Null
                            \/ ~HasActive))
    => results' = results

\* The requests of one sync call carry one token and one spreadsheet id.
OneTokenPerCall ==
  sync'.n = sync.n =>
    (sync'.accessToken = sync.accessToken /\ sync'.spreadsheetId = sync.spreadsheetId)

RECURSIVE IsDoubled(_, _)
IsDoubled(name, str) ==
  IF Len(name) = 0 THEN Len(str) = 0
  ELSE IF SubSeq(name, 1, 1) = "'"
       THEN /\ Len(str) >= 2
            /\ SubSeq(str, 1, 2) = "''"
            /\ IsDoubled(SubSeq(name, 2, Len(name)), SubSeq(str, 3, Len(str)))
       ELSE /\ Len(str) >= 1
            /\ SubSeq(str, 1, 1) = SubSeq(name, 1, 1)
            /\ IsDoubled(SubSeq(name, 2, Len(name)), SubSeq(str, 2, Len(str)))

\* C30: the formatter returns a non-empty name of characters [A-Za-z0-9_]
\* unchanged and every other name between single quotes with each of its
\* single quotes doubled; no two names have the same formatted name.
C30_FormatterQuotesInjectively ==
  LET name == sync.sheetName
      formatted == FormatSheetName(name)
  IN  /\ IsWord(name) => formatted = name
      /\ ~IsWord(name) =>
            /\ Len(formatted) >= 2
            /\ SubSeq(formatted, 1, 1) = "'"
            /\ SubSeq(formatted, Len(formatted), Len(formatted)) = "'"
            /\ IsDoubled(name, SubSeq(formatted, 2, Len(formatted) - 1))
      /\ \A other \in SheetNames :
            FormatSheetName(other) = formatted => other = name
      /\ (sync.pc = "failed" /\ sync.error # Null) =>
            sync.error = "Unable to parse range: " \o formatted \o "!A2"

\* The append of the sheet named a'_ has been refused with its range quoted.
C30_Witness ==
  /\ sync.sheetName = "a'_"
  /\ sync.pc = "failed"
  /\ sync.error = "Unable to parse range: 'a''_'!A2"

\* The step is the arrival of the header read's response, the call going on.
HeadersReconciled == sync.pc = "read" /\ sync'.n = sync.n /\ sync'.pc # "failed"

\* The step issues the header write.
IssuesWrite ==
  sync'.n = sync.n /\ Count(sync'.reqs, "write") > Count(sync.reqs, "write")

\* C31: a sync call issues the header write iff its masterHeaders differs
\* from the existing headers it read, which is iff some finalHeaders entry is
\* absent from them; the write is issued nowhere else, and when it is
\* answered with success row 1 holds the whole of masterHeaders from column A.
C31_WriteIffHeadersDiffer ==
  [][/\ HeadersReconciled =>
          LET loc == sync'.loc
          IN  /\ loc.existingHeaders \in {RemoteHeaderRead(sheet.row1), <<>>}
              /\ IssuesWrite <=> loc.masterHeaders # loc.existingHeaders
              /\ IssuesWrite <=>
                   \E k \in 1..Len(loc.finalHeaders) :
                     ~Includes(loc.existingHeaders, loc.finalHeaders[k])
              /\ IssuesWrite <=> sync'.pc = "write"
     /\ IssuesWrite => HeadersReconciled
     /\ (sync.pc = "write" /\ sheet'.row1 # sheet.row1) =>
          IsPrefix(sync.loc.masterHeaders, sheet'.row1)]_vars

\* After a call that succeeded, a later call has read headers, written its
\* longer masterHeaders over row 1 and issued the append.
C31_Witness ==
  /\ sync.reqs = <<"meta", "read", "write", "append">>
  /\ sync.loc.existingHeaders # <<>>
  /\ IsPrefix(sync.loc.masterHeaders, sheet.row1)
  /\ Len(sync.loc.masterHeaders) > Len(sync.loc.existingHeaders)
  /\ sync.prev.pc = "done"

\* The Results and sheet names that the exports in flight were called with.
ExportTargets(cs) ==
  LET IsExport(c) == c.kind = "export"
      es == SelectSeq(cs, IsExport)
  IN  [k \in 1..Len(es) |-> [id |-> es[k].id, sheetName |-> es[k].sheetName]]

\* The step is the completion of the export call i.
ExportSettles(i) ==
  ExportResolved(i) \/ \E error \in ExportErrors : ExportRejected(i, error)

Touched(rs, rs2) == {k \in 1..Len(rs) : rs2[k] # rs[k]}

\* C32: an export is called with the id and the name that the active Result
\* has at that moment; no other step (a tab selected, a rename) changes
\* what an export in flight was called with; the completion of an export
\* changes one Result at most, the one with the call's id, and of that
\* Result only the status.
C32_ExportKeepsItsResult ==
  [][/\ (HandleExportToSheets /\ Len(calls') > Len(calls)) =>
          ExportTargets(calls') =
            Append(ExportTargets(calls),
                   [id |-> ActiveResult.id, sheetName |-> ActiveResult.name])
     /\ \A i \in 1..Len(calls) :
          ExportSettles(i) =>
            /\ Len(results') = Len(results)
            /\ Cardinality(Touched(results, results')) <= 1
            /\ \A k \in Touched(results, results') :
                 /\ results[k].id = calls[i].id
                 /\ results'[k] = [results[k] EXCEPT !.status = results'[k].status]
     /\ (~HandleExportToSheets /\ ~\E i \in 1..Len(calls) : ExportSettles(i)) =>
          ExportTargets(calls') = ExportTargets(calls)]_vars

\* The export calls in flight for the Result with this id.
SyncsInFlight(id) == {i \in 1..Len(calls) : calls[i].kind = "export" /\ calls[i].id = id}

\* C33: no Result has two sync calls in flight; an export is invoked only
\* for an active Result that is not Exporting and has a field or a table.
C33_OneSyncPerResult ==
  [](\A k \in 1..Len(results) : Cardinality(SyncsInFlight(results[k].id)) <= 1)
  /\ [][(HandleExportToSheets /\ Len(calls') > Len(calls)) =>
          /\ ActiveResult.status # EXPORTING
          /\ Len(ActiveResult.data.fields) > 0 \/ Len(ActiveResult.data.tables) > 0]_vars

\* Syncs for two Results overlap.
C33_SyncsOverlap ==
  \E i, j \in 1..Len(calls) :
    /\ calls[i].kind = "export" /\ calls[j].kind = "export"
    /\ calls[i].id # calls[j].id
    /\ ~calls[i].orphan /\ ~calls[j].orphan

Blank(t) == \A k \in 1..Len(t) : t[k] = " "

\* nm is text without the blanks at its two ends.
IsTrimOf(nm, text) ==
  /\ nm # <<>>
  /\ nm[1] # " "
  /\ nm[Len(nm)] # " "
  /\ \E a \in 0..(Len(text) - Len(nm)) :
       /\ SubSeq(text, a + 1, a + Len(nm)) = nm
       /\ Blank(SubSeq(text, 1, a))
       /\ Blank(SubSeq(text, a + Len(nm) + 1, Len(text)))

\* C34: every Result's name is non-empty in every state; finishing a rename
\* with an empty or blank text changes no Result; a committed name is the
\* entered text without the blanks at its ends, given to the Results with
\* the edited id and to no other, so that nothing changes when no Result has
\* that id any more; cancelling changes no Result.
C34_NamesStayNonEmpty ==
  [](\A k \in 1..Len(results) : Text(results[k].name) # "")
  /\ [][/\ HandleFinishEditing =>
             /\ Len(results') = Len(results)
             /\ Blank(editingName) => results' = results
             /\ ~HasResult(results, editingTabId) => results' = results
             /\ ~Blank(editingName) =>
                  \A k \in 1..Len(results) :
                    IF results[k].id = editingTabId
                    THEN /\ IsTrimOf(results'[k].name, editingName)
                         /\ results'[k] = [results[k] EXCEPT !.name = results'[k].name]
                    ELSE results'[k] = results[k]
        /\ CancelEditing => results' = results]_vars

\* A rename typed with blanks around it has been committed.
C34_Witness ==
  /\ editingTabId = Null
  /\ \E k \in 1..Len(results) : results[k].name = <<"Q3">>

\* C36: a file is taken only while no Result is Analyzing, and so at most
\* one Result is Analyzing and at most one extraction call is in flight.
C36_OneExtractionAtATime ==
  [](/\ Cardinality({k \in 1..Len(results) : results[k].status = ANALYZING}) <= 1
     /\ Cardinality({i \in 1..Len(calls) : calls[i].kind = "extract"}) <= 1)
  /\ [][(\E viaDrop \in BOOLEAN : HandleFile(viaDrop)) =>
          \A k \in 1..Len(results) : results[k].status # ANALYZING]_vars

\* The locals with which the named-sheet variant issues its append, called
\* with data d and sheet name title, when its header read gave existingHeaders.
NamedSheetLocals(d, title, existingHeaders) ==
  Mapped(Reconciled(Prepared([SyncCall("sid", "tok", d) EXCEPT !.sheetName = title]),
                    existingHeaders)).loc

====
